---- MODULE Spec2Model ----
(***************************************************************************)
(* PDF Toolkit: the five document operations of utils/pdf_operations.py    *)
(* and the form handlers of components/pdf_controls.py that call them.     *)
(*                                                                         *)
(* A document is the sequence of its page objects; a page object is the    *)
(* pair <<document id, 1-based page number>>.  A Python str is the tuple   *)
(* of its characters, so that split, strip and int are computed, not       *)
(* assumed.  A path is the record of its directory, stem and extension.    *)
(* A behaviour is one press of a form's submit button: the operations keep *)
(* no state between calls, so the files an earlier call left behind are    *)
(* among the initial file systems (the destination absent, or holding an   *)
(* older document).                                                        *)
(***************************************************************************)
EXTENDS Integers, Sequences, FiniteSets, TLC

\* Source documents have 0..MaxPages pages, and the numbers typed in a range
\* token are 0..MaxPages: every shorter document meets pages past its end.
MaxPages == 3
\* The user types 1..MaxRanges comma-separated range tokens.
MaxRanges == 2
\* The user names 1..MaxFiles files to merge.
MaxFiles == 3

VARIABLES
    fs,               \* path -> file: the files that exist
    dirs,             \* the directories that exist (besides the working directory "")
    pc,               \* position of the submit callback
    exc,              \* the exception in flight, "none" when there is none
    stdout,           \* what the operation printed
    snack,            \* text of the SnackBar on the page, "" when none was shown
    pbar,             \* the tqdm progress bar: [total, n]
    written,          \* paths opened 'wb' and written during the call, in order
    input_pdf, output_pdf, page_ranges, input_files, pages_per_part, power,
    ranges_field,     \* page_ranges_field.value: the ranges text as typed
    reader,           \* reader.pages
    writer,           \* the pages added to the PdfWriter
    idx,              \* index of the outer loop
    pages_to_exclude, num_parts, output_dir, gs_cmd,
    gs_exit           \* what the Ghostscript process does once started ("" before)

args == <<input_pdf, output_pdf, ranges_field, page_ranges, input_files, pages_per_part,
         power>>
locals == <<reader, writer, idx, pages_to_exclude, num_parts, output_dir, gs_cmd, gs_exit,
           pbar>>
disk == <<fs, dirs, written>>
vars == <<fs, dirs, pc, exc, stdout, snack, pbar, written, input_pdf, output_pdf,
          ranges_field, page_ranges, input_files, pages_per_part, power, reader, writer, idx,
          pages_to_exclude, num_parts, output_dir, gs_cmd, gs_exit>>

----------------------------------------------------------------------------
(* Python values *)

Min(a, b) == IF a <= b THEN a ELSE b

\* range(a, b) as a set
PyRange(a, b) == a..(b - 1)

\* a // b  (floor division; b = 0 raises ZeroDivisionError at the caller)
PyFloorDiv(a, b) == IF b > 0 THEN a \div b ELSE (0 - a) \div (0 - b)

\* seq[k] with Python's negative indices; IndexError outside -len..len-1
PyIndexOk(seq, k) == (0 - Len(seq)) <= k /\ k < Len(seq)
PyIndex(seq, k) == IF k >= 0 THEN seq[k + 1] ELSE seq[Len(seq) + k + 1]

DigitChars == <<"0", "1", "2", "3", "4", "5", "6", "7", "8", "9">>
IsDigit(c) == \E d \in 1..10 : DigitChars[d] = c
DigitVal(c) == (CHOOSE d \in 1..10 : DigitChars[d] = c) - 1

\* str(n) for n >= 0
RECURSIVE PyStr(_)
PyStr(n) == IF n < 10 THEN <<DigitChars[n + 1]>>
            ELSE PyStr(n \div 10) \o <<DigitChars[(n % 10) + 1]>>

\* s.split(sep): always at least one piece; "".split(sep) is [""]
RECURSIVE PySplit(_, _)
PySplit(s, sep) ==
    IF \A k \in 1..Len(s) : s[k] # sep THEN <<s>>
    ELSE LET k == CHOOSE j \in 1..Len(s) :
                      s[j] = sep /\ \A h \in 1..(j - 1) : s[h] # sep
         IN  <<SubSeq(s, 1, k - 1)>> \o PySplit(SubSeq(s, k + 1, Len(s)), sep)

\* s.strip()
RECURSIVE PyStrip(_)
PyStrip(s) ==
    IF s = <<>> THEN s
    ELSE IF Head(s) = " " THEN PyStrip(Tail(s))
    ELSE IF s[Len(s)] = " " THEN PyStrip(SubSeq(s, 1, Len(s) - 1))
    ELSE s

\* int(s): surrounding whitespace and one leading sign are accepted, then
\* one or more digits; anything else raises ValueError
PyIntBody(s) == LET t == PyStrip(s)
                IN  IF t # <<>> /\ Head(t) \in {"+", "-"} THEN Tail(t) ELSE t
PyIntOk(s) == LET b == PyIntBody(s)
              IN  b # <<>> /\ \A k \in 1..Len(b) : IsDigit(b[k])
RECURSIVE DigitsVal(_)
DigitsVal(b) == IF b = <<>> THEN 0
                ELSE 10 * DigitsVal(SubSeq(b, 1, Len(b) - 1)) + DigitVal(b[Len(b)])
PyInt(s) == LET t == PyStrip(s)
            IN  IF Head(t) = "-" THEN 0 - DigitsVal(PyIntBody(s))
                ELSE DigitsVal(PyIntBody(s))

\* start, end = map(int, r.split('-')): ValueError unless the token splits
\* into exactly two pieces that int accepts
RangeOk(r) == LET parts == PySplit(r, "-")
              IN  Len(parts) = 2 /\ PyIntOk(parts[1]) /\ PyIntOk(parts[2])
RangeStart(r) == PyInt(PySplit(r, "-")[1])
RangeEnd(r) == PyInt(PySplit(r, "-")[2])

\* (mutant) the pieces are not stripped
parse_page_ranges_unstripped(input_str) == PySplit(input_str, ",")

\* [r.strip() for r in input_str.split(',')]
parse_page_ranges(input_str) ==
    LET pieces == PySplit(input_str, ",")
    IN  [k \in 1..Len(pieces) |-> PyStrip(pieces[k])]

----------------------------------------------------------------------------
(* Paths and files *)

Path(d, s, e) == [dir |-> d, stem |-> s, ext |-> e]
dirname(p) == p.dir
base_name(p) == p.stem                \* os.path.splitext(os.path.basename(p))[0]
exists(f, p) == p \in DOMAIN f        \* os.path.exists
PathStr(p) == IF p.dir = "" THEN p.stem \o p.ext ELSE p.dir \o "/" \o p.stem \o p.ext

\* a file: whether PdfReader can read it, its pages, os.path.getsize
Pdf(pages) == [pdf |-> TRUE, pages |-> pages, size |-> 1 + Len(pages)]
Junk == [pdf |-> FALSE, pages |-> <<>>, size |-> 0]
Doc(id, n) == [k \in 1..n |-> <<id, k>>]

\* PdfReader(p) raises when p is missing or is no PDF
Readable(f, p) == exists(f, p) /\ f[p].pdf

\* open(p, 'wb') raises when the directory of p does not exist
Writable(ds, p) == p.dir = "" \/ p.dir \in ds
WriteFile(f, p, pages) ==
    [q \in DOMAIN f \cup {p} |-> IF q = p THEN Pdf(pages) ELSE f[q]]

SrcA == Path("docs", "a", ".pdf")
SrcB == Path("", "b", ".pdf")
SrcJunk == Path("docs", "junk", ".pdf")
SrcNone == Path("docs", "none", ".pdf")
Dest == Path("docs", "out", ".pdf")
DestNoDir == Path("nodir", "out", ".pdf")

----------------------------------------------------------------------------
(* What the user can type *)

Nums == 0..MaxPages

\* "s-e" tokens: every range over Nums, the empty range e = s - 1 included
WellFormed ==
    UNION {{PyStr(s) \o <<"-">> \o PyStr(e) : e \in {n \in Nums : s <= n + 1}} : s \in Nums}
\* an inverted range, and tokens int accepts around blanks
Unusual == {<<"3", "-", "1">>, <<" ", "1", "-", "1", " ">>, <<"1", " ", "-", " ", "2">>}
\* "3", "1-2-3", "a-b", "", "1-"
Malformed == {<<"3">>, <<"1", "-", "2", "-", "3">>, <<"a", "-", "b">>, <<>>, <<"1", "-">>}
RawTokens == WellFormed \cup Unusual \cup Malformed

RECURSIVE Join(_)
Join(ts) == IF Len(ts) = 1 THEN ts[1] ELSE ts[1] \o <<",">> \o Join(Tail(ts))

RangeInputs == {Join(ts) : ts \in UNION {[1..n -> RawTokens] : n \in 1..MaxRanges}}
OneTokenInputs == {Join(<<t>>) : t \in RawTokens}

\* (input path, output path, ranges text) of a call of extract or delete: every
\* ranges text on the readable source, one-token texts on the sources that
\* cannot be read and on the destination that cannot be written
RangeCalls ==
    {<<SrcA, Dest, s>> : s \in RangeInputs}
    \cup {<<p, Dest, s>> : p \in {SrcNone, SrcJunk}, s \in OneTokenInputs}
    \cup {<<SrcA, DestNoDir, s>> : s \in OneTokenInputs}

----------------------------------------------------------------------------
(* The state when a form is on the page *)

NoPath == Path("", "", "")
NoBar == [total |-> 0, n |-> 0]

SourceFiles(n) == (SrcA :> Pdf(Doc("a", n))) @@ (SrcB :> Pdf(Doc("b", 2)))
                  @@ (SrcJunk :> Junk)
OldDest == Dest :> Pdf(Doc("old", 1))

Init ==
    /\ \E n \in 0..MaxPages : fs \in {SourceFiles(n), SourceFiles(n) @@ OldDest}
    /\ dirs = {"docs"}
    /\ pc = "form"
    /\ exc = "none"
    /\ stdout = <<>>
    /\ snack = ""
    /\ pbar = NoBar
    /\ written = <<>>
    /\ input_pdf = NoPath /\ output_pdf = NoPath
    /\ ranges_field = <<>> /\ page_ranges = <<>> /\ input_files = <<>>
    /\ pages_per_part = 0 /\ power = 0
    /\ reader = <<>> /\ writer = <<>> /\ idx = 0
    /\ pages_to_exclude = {} /\ num_parts = 0 /\ output_dir = "" /\ gs_cmd = <<>>
    /\ gs_exit = ""

\* raise: the exception leaves the try block for its except clause
Raise(e, handler) == exc' = e /\ pc' = handler

Emit(out, line) == Append(out, line)

----------------------------------------------------------------------------
(* extract_pages *)

\* sum(end - start + 1 for r in page_ranges ...)
RECURSIVE SumRangeSizes(_)
SumRangeSizes(rs) ==
    IF rs = <<>> THEN 0
    ELSE RangeEnd(Head(rs)) - RangeStart(Head(rs)) + 1 + SumRangeSizes(Tail(rs))

PageWarning(n) == "Warning: Page " \o ToString(n) \o " does not exist - skipping"

\* reader.pages[page_num] after the test page_num < len(reader.pages)
PageExists(rd, page_num) == page_num < Len(rd)

\* (mutant) a page that is already in the writer is not added again
RECURSIVE ExtractLoopDedup(_, _, _, _)
ExtractLoopDedup(st, rd, page_num, end) ==
    IF page_num >= end THEN st
    ELSE IF PageExists(rd, page_num) /\ PyIndexOk(rd, page_num)
    THEN ExtractLoopDedup(
             IF \E k \in 1..Len(st.writer) : st.writer[k] = PyIndex(rd, page_num)
             THEN st
             ELSE [st EXCEPT !.writer = Append(@, PyIndex(rd, page_num)), !.n = @ + 1],
             rd, page_num + 1, end)
    ELSE ExtractLoopDedup([st EXCEPT !.out = Emit(@, PageWarning(page_num + 1))],
                          rd, page_num + 1, end)

\* for page_num in range(start - 1, end): ... on st = [writer, out, n, exc]
RECURSIVE ExtractLoop(_, _, _, _)
ExtractLoop(st, rd, page_num, end) ==
    IF page_num >= end THEN st
    ELSE IF PageExists(rd, page_num)
    THEN IF PyIndexOk(rd, page_num)
         THEN ExtractLoop([st EXCEPT !.writer = Append(@, PyIndex(rd, page_num)),
                                     !.n = @ + 1],
                          rd, page_num + 1, end)
         ELSE [st EXCEPT !.exc = "IndexError"]
    ELSE ExtractLoop([st EXCEPT !.out = Emit(@, PageWarning(page_num + 1))],
                     rd, page_num + 1, end)

\* (mutant) the outer loop stops after its first element
LastOfFirst(i, list) == i >= 1

\* the outer loop has taken its last element
LastOf(i, list) == i = Len(list)

HandleExtract ==
    /\ pc = "form"
    /\ \E c \in RangeCalls :
          /\ input_pdf' = c[1]
          /\ output_pdf' = c[2]
          /\ ranges_field' = c[3]
          /\ page_ranges' = parse_page_ranges(c[3])
    /\ pc' = "extract_open"
    /\ UNCHANGED <<disk, exc, stdout, snack, locals, input_files, pages_per_part, power>>

ExtractOpen ==
    /\ pc = "extract_open"
    /\ IF Readable(fs, input_pdf)
       THEN /\ reader' = fs[input_pdf].pages
            /\ writer' = <<>>
            /\ pc' = "extract_count"
            /\ exc' = exc
       ELSE /\ Raise(IF exists(fs, input_pdf) THEN "PdfReadError"
                     ELSE "FileNotFoundError", "extract_except")
            /\ UNCHANGED <<reader, writer>>
    /\ UNCHANGED <<disk, args, stdout, snack, pbar, idx, pages_to_exclude, num_parts,
                   output_dir, gs_cmd, gs_exit>>

ExtractCount ==
    /\ pc = "extract_count"
    /\ IF \A k \in 1..Len(page_ranges) : RangeOk(page_ranges[k])
       THEN /\ pbar' = [total |-> SumRangeSizes(page_ranges), n |-> 0]
            /\ idx' = 1
            /\ pc' = "extract_range"
            /\ exc' = exc
       ELSE /\ Raise("ValueError", "extract_except")
            /\ UNCHANGED <<pbar, idx>>
    /\ UNCHANGED <<disk, args, stdout, snack, reader, writer, pages_to_exclude,
                   num_parts, output_dir, gs_cmd, gs_exit>>

ExtractRange ==
    /\ pc = "extract_range"
    /\ LET r == page_ranges[idx]
           st == ExtractLoop([writer |-> writer, out |-> stdout, n |-> pbar.n,
                              exc |-> "none"],
                             reader, RangeStart(r) - 1, RangeEnd(r))
       IN  IF ~RangeOk(r)
           THEN /\ Raise("ValueError", "extract_except")
                /\ UNCHANGED <<writer, stdout, pbar, idx>>
           ELSE IF st.exc # "none"
           THEN /\ Raise(st.exc, "extract_except")
                /\ writer' = st.writer
                /\ stdout' = st.out
                /\ pbar' = [pbar EXCEPT !.n = st.n]
                /\ idx' = idx
           ELSE /\ writer' = st.writer
                /\ stdout' = st.out
                /\ pbar' = [pbar EXCEPT !.n = st.n]
                /\ idx' = idx + 1
                /\ pc' = IF LastOf(idx, page_ranges) THEN "extract_write"
                         ELSE "extract_range"
                /\ exc' = exc
    /\ UNCHANGED <<disk, args, snack, reader, pages_to_exclude, num_parts, output_dir,
                   gs_cmd, gs_exit>>

ExtractWrite ==
    /\ pc = "extract_write"
    /\ IF Writable(dirs, output_pdf)
       THEN /\ fs' = WriteFile(fs, output_pdf, writer)
            /\ written' = Append(written, output_pdf)
            /\ stdout' = Emit(stdout, "Success: Pages extracted")
            /\ pc' = "extract_return"
            /\ exc' = exc
       ELSE /\ Raise("FileNotFoundError", "extract_except")
            /\ UNCHANGED <<fs, written, stdout>>
    /\ UNCHANGED <<dirs, args, snack, locals>>

ExtractExcept ==
    /\ pc = "extract_except"
    /\ stdout' = Emit(stdout, "Error: " \o exc)
    /\ exc' = "none"
    /\ pc' = "extract_return"
    /\ UNCHANGED <<disk, args, snack, locals>>

\* handle_extract after extract_pages has returned or raised
ExtractSnack ==
    /\ pc = "extract_return"
    /\ snack' = IF exc = "none" THEN "Pages extracted successfully!"
                ELSE "Error: " \o exc
    /\ exc' = "none"
    /\ pc' = "done"
    /\ UNCHANGED <<disk, args, stdout, locals>>

----------------------------------------------------------------------------
(* delete_pages *)

\* for page_num in range(total_pages): if page_num not in pages_to_exclude: ...
RECURSIVE DeleteLoop(_, _, _, _)
DeleteLoop(w, rd, excluded, page_num) ==
    IF page_num >= Len(rd) THEN w
    ELSE IF page_num \notin excluded
    THEN DeleteLoop(Append(w, PyIndex(rd, page_num)), rd, excluded, page_num + 1)
    ELSE DeleteLoop(w, rd, excluded, page_num + 1)

\* (mutant) the 1-indexed numbers are used as 0-indexed ones
ExcludedOneBased(r) == PyRange(RangeStart(r), RangeEnd(r) + 1)

\* range(start - 1, end): the 0-indexed pages a token excludes
Excluded(r) == PyRange(RangeStart(r) - 1, RangeEnd(r))

HandleDelete ==
    /\ pc = "form"
    /\ \E c \in RangeCalls :
          /\ input_pdf' = c[1]
          /\ output_pdf' = c[2]
          /\ ranges_field' = c[3]
          /\ page_ranges' = parse_page_ranges(c[3])
    /\ pc' = "delete_open"
    /\ UNCHANGED <<disk, exc, stdout, snack, locals, input_files, pages_per_part, power>>

DeleteOpen ==
    /\ pc = "delete_open"
    /\ IF Readable(fs, input_pdf)
       THEN /\ reader' = fs[input_pdf].pages
            /\ writer' = <<>>
            /\ pages_to_exclude' = {}
            /\ idx' = 1
            /\ pc' = "delete_range"
            /\ exc' = exc
       ELSE /\ Raise(IF exists(fs, input_pdf) THEN "PdfReadError"
                     ELSE "FileNotFoundError", "delete_except")
            /\ UNCHANGED <<reader, writer, pages_to_exclude, idx>>
    /\ UNCHANGED <<disk, args, stdout, snack, pbar, num_parts, output_dir, gs_cmd, gs_exit>>

DeleteRange ==
    /\ pc = "delete_range"
    /\ LET r == page_ranges[idx]
       IN  IF RangeOk(r)
           THEN /\ pages_to_exclude' = pages_to_exclude \cup Excluded(r)
                /\ idx' = idx + 1
                /\ pc' = IF LastOf(idx, page_ranges) THEN "delete_copy"
                         ELSE "delete_range"
                /\ exc' = exc
           ELSE /\ Raise("ValueError", "delete_except")
                /\ UNCHANGED <<pages_to_exclude, idx>>
    /\ UNCHANGED <<disk, args, stdout, snack, pbar, reader, writer, num_parts, output_dir,
                   gs_cmd, gs_exit>>

DeleteCopy ==
    /\ pc = "delete_copy"
    /\ writer' = DeleteLoop(writer, reader, pages_to_exclude, 0)
    /\ pbar' = [total |-> Len(reader) - Cardinality(pages_to_exclude),
                n |-> Len(writer')]
    /\ pc' = "delete_write"
    /\ UNCHANGED <<disk, args, exc, stdout, snack, reader, idx, pages_to_exclude,
                   num_parts, output_dir, gs_cmd, gs_exit>>

DeleteWrite ==
    /\ pc = "delete_write"
    /\ IF Writable(dirs, output_pdf)
       THEN /\ fs' = WriteFile(fs, output_pdf, writer)
            /\ written' = Append(written, output_pdf)
            /\ stdout' = Emit(stdout, "Success: Pages deleted")
            /\ pc' = "delete_return"
            /\ exc' = exc
       ELSE /\ Raise("FileNotFoundError", "delete_except")
            /\ UNCHANGED <<fs, written, stdout>>
    /\ UNCHANGED <<dirs, args, snack, locals>>

DeleteExcept ==
    /\ pc = "delete_except"
    /\ stdout' = Emit(stdout, "Error: " \o exc)
    /\ exc' = "none"
    /\ pc' = "delete_return"
    /\ UNCHANGED <<disk, args, snack, locals>>

\* handle_delete after delete_pages has returned or raised
DeleteSnack ==
    /\ pc = "delete_return"
    /\ snack' = IF exc = "none" THEN "Pages deleted successfully!"
                ELSE "Error: " \o exc
    /\ exc' = "none"
    /\ pc' = "done"
    /\ UNCHANGED <<disk, args, stdout, locals>>

----------------------------------------------------------------------------
(* merge_pdfs *)

MergePaths == {SrcA, SrcB, SrcNone, SrcJunk}
FileLists == UNION {[1..n -> MergePaths] : n \in 1..MaxFiles}
MergeCalls == {<<l, Dest>> : l \in FileLists}
              \cup {<<l, DestNoDir>> : l \in {<<SrcA>>, <<SrcB, SrcA>>}}

FileWarning(p) == "Warning: File " \o p.stem \o p.ext \o " not found - skipping"

\* first pass: total_pages += len(reader.pages) over the files that exist;
\* "raise" when PdfReader cannot read one of them
RECURSIVE CountPages(_, _)
CountPages(f, files) ==
    IF files = <<>> THEN [exc |-> "none", total |-> 0]
    ELSE IF ~exists(f, Head(files)) THEN CountPages(f, Tail(files))
    ELSE IF ~Readable(f, Head(files)) THEN [exc |-> "PdfReadError", total |-> 0]
    ELSE LET rest == CountPages(f, Tail(files))
         IN  [rest EXCEPT !.total = @ + Len(f[Head(files)].pages)]

\* (mutant) the pages of a file are put before those already added
AddPagesFront(w, pages) == pages \o w

\* for page in reader.pages: writer.add_page(page)
AddPages(w, pages) == w \o pages

HandleMerge ==
    /\ pc = "form"
    /\ \E c \in MergeCalls :
          /\ input_files' = c[1]
          /\ output_pdf' = c[2]
    /\ pc' = "merge_count"
    /\ UNCHANGED <<disk, exc, stdout, snack, locals, input_pdf, ranges_field, page_ranges,
                   pages_per_part, power>>

MergeCount ==
    /\ pc = "merge_count"
    /\ writer' = <<>>
    /\ LET c == CountPages(fs, input_files)
       IN  IF c.exc = "none"
           THEN /\ pbar' = [total |-> c.total, n |-> 0]
                /\ idx' = 1
                /\ pc' = "merge_file"
                /\ exc' = exc
           ELSE /\ Raise(c.exc, "merge_except")
                /\ UNCHANGED <<pbar, idx>>
    /\ UNCHANGED <<disk, args, stdout, snack, reader, pages_to_exclude, num_parts,
                   output_dir, gs_cmd, gs_exit>>

MergeFile ==
    /\ pc = "merge_file"
    /\ LET file == input_files[idx]
           more == IF LastOf(idx, input_files) THEN "merge_write" ELSE "merge_file"
       IN  IF ~exists(fs, file)
           THEN /\ stdout' = Emit(stdout, FileWarning(file))
                /\ idx' = idx + 1
                /\ pc' = more
                /\ UNCHANGED <<exc, reader, writer, pbar>>
           ELSE IF ~Readable(fs, file)
           THEN /\ Raise("PdfReadError", "merge_except")
                /\ UNCHANGED <<stdout, idx, reader, writer, pbar>>
           ELSE /\ reader' = fs[file].pages
                /\ writer' = AddPages(writer, reader')
                /\ pbar' = [pbar EXCEPT !.n = @ + Len(reader')]
                /\ idx' = idx + 1
                /\ pc' = more
                /\ UNCHANGED <<exc, stdout>>
    /\ UNCHANGED <<disk, args, snack, pages_to_exclude, num_parts, output_dir, gs_cmd,
                   gs_exit>>

MergeWrite ==
    /\ pc = "merge_write"
    /\ IF Writable(dirs, output_pdf)
       THEN /\ fs' = WriteFile(fs, output_pdf, writer)
            /\ written' = Append(written, output_pdf)
            /\ stdout' = Emit(stdout, "Success: Files merged")
            /\ pc' = "merge_return"
            /\ exc' = exc
       ELSE /\ Raise("FileNotFoundError", "merge_except")
            /\ UNCHANGED <<fs, written, stdout>>
    /\ UNCHANGED <<dirs, args, snack, locals>>

MergeExcept ==
    /\ pc = "merge_except"
    /\ stdout' = Emit(stdout, "Error: " \o exc)
    /\ exc' = "none"
    /\ pc' = "merge_return"
    /\ UNCHANGED <<disk, args, snack, locals>>

\* handle_merge after merge_pdfs has returned or raised
MergeSnack ==
    /\ pc = "merge_return"
    /\ snack' = IF exc = "none" THEN "Files merged successfully!"
                ELSE "Error: " \o exc
    /\ exc' = "none"
    /\ pc' = "done"
    /\ UNCHANGED <<disk, args, stdout, locals>>

----------------------------------------------------------------------------
(* split_pdf *)

RECURSIVE StrOf(_)
StrOf(cs) == IF cs = <<>> THEN "" ELSE Head(cs) \o StrOf(Tail(cs))

\* what the user answers to "Enter directory to save parts" (input() reads
\* a line from the terminal): nothing, a blank, a directory name after a blank
Answers == {<<>>, <<" ">>, <<" ", "p", "a", "r", "t", "s">>}

PartSizes == (0 - MaxPages)..(MaxPages + 1)
SplitCalls == {<<p, k>> : p \in {SrcA, SrcB, SrcNone, SrcJunk}, k \in PartSizes}

\* f"{base_name}_part{part_num + 1}.pdf" under output_dir
PartPath(dir, base, part_num) ==
    Path(dir, base \o "_part" \o ToString(part_num + 1), ".pdf")

\* for page_num in range(start_page, end_page): writer.add_page(...)
RECURSIVE SplitLoop(_, _, _, _)
SplitLoop(w, rd, page_num, end_page) ==
    IF page_num >= end_page THEN [exc |-> "none", writer |-> w]
    ELSE IF ~PyIndexOk(rd, page_num) THEN [exc |-> "IndexError", writer |-> w]
    ELSE SplitLoop(Append(w, PyIndex(rd, page_num)), rd, page_num + 1, end_page)

\* (mutant) the division rounds down
NumPartsFloor(total_pages, k) == PyFloorDiv(total_pages, k)

\* (total_pages + pages_per_part - 1) // pages_per_part
NumParts(total_pages, k) == PyFloorDiv(total_pages + k - 1, k)

HandleSplit ==
    /\ pc = "form"
    /\ \E c \in SplitCalls :
          /\ input_pdf' = c[1]
          /\ pages_per_part' = c[2]
    /\ pc' = "split_open"
    /\ UNCHANGED <<disk, exc, stdout, snack, locals, output_pdf, ranges_field, page_ranges,
                   input_files, power>>

SplitOpen ==
    /\ pc = "split_open"
    /\ \E answer \in Answers :
          LET typed == StrOf(PyStrip(answer))
              dir == IF typed = "" THEN dirname(input_pdf) ELSE typed
          IN  IF ~Readable(fs, input_pdf)
              THEN /\ Raise(IF exists(fs, input_pdf) THEN "PdfReadError"
                            ELSE "FileNotFoundError", "split_except")
                   /\ UNCHANGED <<reader, num_parts, output_dir, dirs, pbar, idx>>
              ELSE IF pages_per_part = 0
              THEN /\ Raise("ZeroDivisionError", "split_except")
                   /\ reader' = fs[input_pdf].pages
                   /\ UNCHANGED <<num_parts, output_dir, dirs, pbar, idx>>
              ELSE IF dir = ""
              THEN /\ Raise("FileNotFoundError", "split_except")
                   /\ reader' = fs[input_pdf].pages
                   /\ num_parts' = NumParts(Len(reader'), pages_per_part)
                   /\ output_dir' = dir
                   /\ UNCHANGED <<dirs, pbar, idx>>
              ELSE /\ reader' = fs[input_pdf].pages
                   /\ num_parts' = NumParts(Len(reader'), pages_per_part)
                   /\ output_dir' = dir
                   /\ dirs' = dirs \cup {dir}
                   /\ pbar' = [total |-> Len(reader'), n |-> 0]
                   /\ idx' = 0
                   /\ pc' = IF num_parts' > 0 THEN "split_part" ELSE "split_done"
                   /\ exc' = exc
    /\ UNCHANGED <<fs, written, args, stdout, snack, writer, pages_to_exclude, gs_cmd,
                   gs_exit>>

SplitPart ==
    /\ pc = "split_part"
    /\ LET start_page == idx * pages_per_part
           end_page == Min((idx + 1) * pages_per_part, Len(reader))
           part == SplitLoop(<<>>, reader, start_page, end_page)
           out == PartPath(output_dir, base_name(input_pdf), idx)
       IN  IF part.exc # "none"
           THEN /\ Raise(part.exc, "split_except")
                /\ writer' = part.writer
                /\ UNCHANGED <<fs, written, pbar, idx>>
           ELSE IF ~Writable(dirs, out)
           THEN /\ Raise("FileNotFoundError", "split_except")
                /\ writer' = part.writer
                /\ pbar' = [pbar EXCEPT !.n = @ + Len(part.writer)]
                /\ UNCHANGED <<fs, written, idx>>
           ELSE /\ writer' = part.writer
                /\ pbar' = [pbar EXCEPT !.n = @ + Len(part.writer)]
                /\ fs' = WriteFile(fs, out, part.writer)
                /\ written' = Append(written, out)
                /\ idx' = idx + 1
                /\ pc' = IF idx + 1 < num_parts THEN "split_part" ELSE "split_done"
                /\ exc' = exc
    /\ UNCHANGED <<dirs, args, stdout, snack, reader, pages_to_exclude, num_parts,
                   output_dir, gs_cmd, gs_exit>>

SplitDone ==
    /\ pc = "split_done"
    /\ stdout' = Emit(stdout, "Success: PDF split into " \o ToString(num_parts) \o " parts")
    /\ pc' = "split_return"
    /\ UNCHANGED <<disk, args, exc, snack, locals>>

SplitExcept ==
    /\ pc = "split_except"
    /\ stdout' = Emit(stdout, "Error: " \o exc)
    /\ exc' = "none"
    /\ pc' = "split_return"
    /\ UNCHANGED <<disk, args, snack, locals>>

\* handle_split after split_pdf has returned or raised
SplitSnack ==
    /\ pc = "split_return"
    /\ snack' = IF exc = "none" THEN "PDF split successfully!"
                ELSE "Error: " \o exc
    /\ exc' = "none"
    /\ pc' = "done"
    /\ UNCHANGED <<disk, args, stdout, locals>>

----------------------------------------------------------------------------
(* compress_pdf *)

quality_map == (1 :> "/prepress") @@ (2 :> "/printer") @@ (3 :> "/ebook")
               @@ (4 :> "/screen") @@ (5 :> "/ebook")

InvalidLevel == "Invalid compression level. Using default (3 - ebook)"

\* gs_cmd[3:3] = [...]
CustomFlags == <<"-dDetectDuplicateImages=true", "-dColorImageResolution=150",
                 "-dGrayImageResolution=150", "-dMonoImageResolution=150",
                 "-dDownsampleColorImages=true", "-dDownsampleGrayImages=true",
                 "-dDownsampleMonoImages=true">>

GsCmd(in, out, level) ==
    LET cmd == <<"gs", "-sDEVICE=pdfwrite", "-dCompatibilityLevel=1.5",
                 "-dPDFSETTINGS=" \o quality_map[level], "-dNOPAUSE", "-dQUIET",
                 "-dBATCH", "-dAutoRotatePages=/None",
                 "-sOutputFile=" \o PathStr(out), PathStr(in)>>
    IN  IF level = 5
        THEN SubSeq(cmd, 1, 3) \o CustomFlags \o SubSeq(cmd, 4, Len(cmd))
        ELSE cmd

\* (mutant) an invalid power is clamped to the nearest level
LevelClamped(pw) == IF pw < 1 THEN 1 ELSE IF pw > 5 THEN 5 ELSE pw

\* the level the command is built for: power, or 3 when power is no key
Level(pw) == IF pw \in DOMAIN quality_map THEN pw ELSE 3

\* The Ghostscript process: it is not installed (Popen raises), or it runs
\* and leaves an output file, or it runs and leaves none.  It can leave a
\* file only where the directory of the output exists.
GsExits == {"not installed", "wrote", "failed"}
GsWrites(ds, out, gs) == gs = "wrote" /\ Writable(ds, out)
GsOutput(f, in, out) ==
    [q \in DOMAIN f \cup {out} |-> IF q = out THEN f[in] ELSE f[q]]

\* the whole of compress_pdf on file system f: the file system it leaves,
\* what it printed, the command it built and whether the process was run
compress_pdf(f, ds, in, out, pw, gs) ==
    LET level == Level(pw)
        warned == IF pw \in DOMAIN quality_map THEN <<>> ELSE <<InvalidLevel>>
        cmd == GsCmd(in, out, level)
        started == Emit(warned, "Compressing PDF (this may take a while for large files)...")
        after == IF GsWrites(ds, out, gs) THEN GsOutput(f, in, out) ELSE f
    IN  IF ~exists(f, in)
        THEN [fs |-> f, out |-> Emit(warned, "Error: Input file does not exist"),
              cmd |-> <<>>, ran |-> FALSE]
        ELSE IF gs = "not installed"
        THEN [fs |-> f, out |-> Emit(started, "[Errno 2] No such file or directory: 'gs'"),
              cmd |-> cmd, ran |-> FALSE]
        ELSE IF ~exists(after, out)
        THEN [fs |-> after, out |-> Emit(started, "Error: Output file was not created"),
              cmd |-> cmd, ran |-> TRUE]
        ELSE IF f[in].size = 0
        THEN [fs |-> after, out |-> Emit(started, "Unexpected error: float division by zero"),
              cmd |-> cmd, ran |-> TRUE]
        ELSE [fs |-> after, out |-> Emit(started, "Success: File compressed"),
              cmd |-> cmd, ran |-> TRUE]

Levels == 0..6
CompressCalls == {<<in, out, pw>> : in \in {SrcA, SrcNone, SrcJunk},
                                    out \in {Dest, DestNoDir}, pw \in Levels}

\* handle_compress: compress_pdf catches everything it raises, so the handler
\* goes on to its success SnackBar
HandleCompress ==
    /\ pc = "form"
    /\ \E c \in CompressCalls, gs \in GsExits :
          LET r == compress_pdf(fs, dirs, c[1], c[2], c[3], gs)
          IN  /\ input_pdf' = c[1]
              /\ output_pdf' = c[2]
              /\ power' = c[3]
              /\ fs' = r.fs
              /\ written' = IF r.ran /\ GsWrites(dirs, c[2], gs) THEN <<c[2]>> ELSE <<>>
              /\ stdout' = r.out
              /\ gs_cmd' = r.cmd
              /\ gs_exit' = gs
    /\ snack' = IF exc = "none" THEN "PDF compressed successfully!" ELSE "Error: " \o exc
    /\ pc' = "done"
    /\ UNCHANGED <<dirs, exc, pbar, ranges_field, page_ranges, input_files, pages_per_part,
                   reader, writer, idx, pages_to_exclude, num_parts, output_dir>>

----------------------------------------------------------------------------

Next ==
    \/ HandleExtract \/ ExtractOpen \/ ExtractCount \/ ExtractRange
    \/ ExtractWrite \/ ExtractExcept \/ ExtractSnack
    \/ HandleDelete \/ DeleteOpen \/ DeleteRange \/ DeleteCopy
    \/ DeleteWrite \/ DeleteExcept \/ DeleteSnack
    \/ HandleMerge \/ MergeCount \/ MergeFile \/ MergeWrite \/ MergeExcept \/ MergeSnack
    \/ HandleSplit \/ SplitOpen \/ SplitPart \/ SplitDone \/ SplitExcept \/ SplitSnack
    \/ HandleCompress

Spec == Init /\ [][Next]_vars

----------------------------------------------------------------------------
(* What the claims are stated with *)

Lines(out) == {out[k] : k \in 1..Len(out)}
Last(out) == out[Len(out)]
ErrorLines ==
    {"Error: " \o e : e \in {"FileNotFoundError", "PdfReadError", "ValueError",
                             "IndexError", "ZeroDivisionError"}}
    \cup {"Error: Input file does not exist", "Error: Output file was not created",
          "[Errno 2] No such file or directory: 'gs'",
          "Unexpected error: float division by zero"}
SplitSuccessLines ==
    {"Success: PDF split into " \o ToString(n) \o " parts" :
        n \in (0 - (MaxPages + 2))..(MaxPages + 2)}
SuccessSnacks == {"Pages extracted successfully!", "Files merged successfully!",
                  "PDF split successfully!", "Pages deleted successfully!",
                  "PDF compressed successfully!"}
Failed == Lines(stdout) \cap ErrorLines # {}

Count(s, c) == Cardinality({k \in 1..Len(s) : s[k] = c})
Unblank(s) == SelectSeq(s, LAMBDA c : c # " ")
RECURSIVE Flatten(_)
Flatten(ss) == IF ss = <<>> THEN <<>> ELSE Head(ss) \o Flatten(Tail(ss))

\* blanks, an optional "+", one or more digits, blanks: what int accepts
\* of a piece that holds no "-"
IsNumeral(s) ==
    \E i \in 1..Len(s), j \in 1..Len(s) :
        /\ i <= j
        /\ \A k \in 1..(i - 1) : s[k] = " "
        /\ \A k \in (j + 1)..Len(s) : s[k] = " "
        /\ \/ \A k \in i..j : IsDigit(s[k])
           \/ i < j /\ s[i] = "+" /\ \A k \in (i + 1)..j : IsDigit(s[k])

\* "<start>-<end>": one "-" with a numeral on either side
IsRangeToken(t) ==
    /\ Count(t, "-") = 1
    /\ LET k == CHOOSE j \in 1..Len(t) : t[j] = "-"
       IN  IsNumeral(SubSeq(t, 1, k - 1)) /\ IsNumeral(SubSeq(t, k + 1, Len(t)))

Chars12 == <<"1", "-", "2">>
Chars23 == <<"2", "-", "3">>
Chars01 == <<"0", "-", "1">>

----------------------------------------------------------------------------
(* C1 *)

RECURSIVE ConcatRanges(_, _)
ConcatRanges(src, rs) ==
    IF rs = <<>> THEN <<>>
    ELSE SubSeq(src, RangeStart(Head(rs)), RangeEnd(Head(rs)))
         \o ConcatRanges(src, Tail(rs))

InDocument(r, n) ==
    /\ RangeOk(r)
    /\ 1 <= RangeStart(r) /\ RangeStart(r) <= RangeEnd(r) /\ RangeEnd(r) <= n

ExtractReturned ==
    pc = "extract_return" /\ Readable(fs, input_pdf) /\ Writable(dirs, output_pdf)

\* C1: when extract_pages returns from a call whose range tokens "s-e" all
\* have 1 <= s <= e <= N, the one file it wrote holds source pages s..e of
\* each range, concatenated in the order of the ranges, a page once per
\* range that covers it; the single range 1-N gives the source itself.
C1_ExtractConcatenates ==
    (/\ ExtractReturned
     /\ \A k \in 1..Len(page_ranges) :
            InDocument(page_ranges[k], Len(fs[input_pdf].pages)))
    => /\ written = <<output_pdf>>
       /\ fs[output_pdf].pages = ConcatRanges(fs[input_pdf].pages, page_ranges)
       /\ (Len(page_ranges) = 1 /\ RangeStart(page_ranges[1]) = 1
           /\ RangeEnd(page_ranges[1]) = Len(fs[input_pdf].pages))
          => fs[output_pdf].pages = fs[input_pdf].pages
       /\ ~Failed

\* C1 witness: "1-2,2-3" of a 3-page source has been extracted, page 2 twice
C1_Witness ==
    /\ ExtractReturned
    /\ page_ranges = <<Chars12, Chars23>>
    /\ fs[output_pdf].pages = <<<<"a", 1>>, <<"a", 2>>, <<"a", 2>>, <<"a", 3>>>>

----------------------------------------------------------------------------
(* C5 *)

RECURSIVE ConcatValid(_, _)
ConcatValid(src, rs) ==
    IF rs = <<>> THEN <<>>
    ELSE LET s == RangeStart(Head(rs))
             e == RangeEnd(Head(rs))
         IN  SubSeq(src, IF s < 1 THEN 1 ELSE s, Min(e, Len(src)))
             \o ConcatValid(src, Tail(rs))

\* C5: when extract_pages returns from a call with "s-e" tokens on a source
\* of N >= 1 pages, every page number p of a range with p < 1 or p > N has
\* been skipped with a warning, and the file written holds exactly the
\* covered pages with 1 <= p <= N.
C5_OutOfRangeSkipped ==
    (/\ ExtractReturned
     /\ Len(fs[input_pdf].pages) >= 1
     /\ \A k \in 1..Len(page_ranges) : IsRangeToken(page_ranges[k]))
    => /\ written = <<output_pdf>>
       /\ fs[output_pdf].pages = ConcatValid(fs[input_pdf].pages, page_ranges)
       /\ \A k \in 1..Len(page_ranges) :
             \A p \in RangeStart(page_ranges[k])..RangeEnd(page_ranges[k]) :
                 (p < 1 \/ p > Len(fs[input_pdf].pages))
                 => PageWarning(p) \in Lines(stdout)

----------------------------------------------------------------------------
(* C2 *)

Covered(p, rs) ==
    \E k \in 1..Len(rs) : RangeStart(rs[k]) <= p /\ p <= RangeEnd(rs[k])

RECURSIVE Keeping(_, _, _)
Keeping(src, rs, p) ==
    IF p > Len(src) THEN <<>>
    ELSE (IF Covered(p, rs) THEN <<>> ELSE <<src[p]>>) \o Keeping(src, rs, p + 1)

DeleteReturned ==
    pc = "delete_return" /\ Readable(fs, input_pdf) /\ Writable(dirs, output_pdf)

\* C2: when delete_pages returns from a call with "s-e" tokens (overlapping,
\* starting at 0 or reaching past N as they may), it reported no error and
\* the one file it wrote holds, in source order, exactly the source pages
\* whose 1-indexed number lies in none of the ranges.
C2_DeleteKeepsComplement ==
    (DeleteReturned /\ \A k \in 1..Len(page_ranges) : IsRangeToken(page_ranges[k]))
    => /\ written = <<output_pdf>>
       /\ fs[output_pdf].pages = Keeping(fs[input_pdf].pages, page_ranges, 1)
       /\ stdout = <<"Success: Pages deleted">>

\* C2 witness: "0-1,1-2" deleted from a 3-page source leaves page 3
C2_Witness ==
    /\ DeleteReturned
    /\ page_ranges = <<Chars01, Chars12>>
    /\ Len(fs[input_pdf].pages) = 3
    /\ fs[output_pdf].pages = <<<<"a", 3>>>>

----------------------------------------------------------------------------
(* C3 *)

\* ceil(n / k) for k > 0: the least m with m * k >= n
Ceil(n, k) == CHOOSE m \in 0..n : m * k >= n /\ \A h \in 0..(m - 1) : h * k < n

\* split_pdf has returned from a call that named a source it could read and
\* had a directory to write to (one typed, or the directory of the source)
SplitReturned ==
    pc = "split_return" /\ Readable(fs, input_pdf) /\ output_dir # ""

----------------------------------------------------------------------------
(* C6 *)

\* C6: when split_pdf returns from a call with pages_per_part <= 0, it has
\* reported a failure, written no part file and not reported success.
C6_NonPositiveRejected ==
    (pc = "split_return" /\ pages_per_part <= 0)
    => /\ Failed
       /\ written = <<>>
       /\ Lines(stdout) \cap SplitSuccessLines = {}

----------------------------------------------------------------------------
(* C4 *)

RECURSIVE MergedPages(_, _)
MergedPages(f, files) ==
    IF files = <<>> THEN <<>>
    ELSE (IF exists(f, Head(files)) THEN f[Head(files)].pages ELSE <<>>)
         \o MergedPages(f, Tail(files))

RECURSIVE MissingWarnings(_, _)
MissingWarnings(f, files) ==
    IF files = <<>> THEN <<>>
    ELSE (IF exists(f, Head(files)) THEN <<>> ELSE <<FileWarning(Head(files))>>)
         \o MissingWarnings(f, Tail(files))

\* merge_pdfs has returned from a call whose files that exist are PDFs
MergeReturned ==
    /\ pc = "merge_return"
    /\ Writable(dirs, output_pdf)
    /\ \A k \in 1..Len(input_files) :
           exists(fs, input_files[k]) => Readable(fs, input_files[k])

\* C4: when merge_pdfs returns, the one file it wrote holds all pages of
\* each path that exists, each file's pages in their order, the files in
\* the order given; a path that does not exist got a warning and nothing
\* else, and the merge succeeded.
C4_MergeConcatenates ==
    MergeReturned
    => /\ written = <<output_pdf>>
       /\ fs[output_pdf].pages = MergedPages(fs, input_files)
       /\ stdout = MissingWarnings(fs, input_files) \o <<"Success: Files merged">>

\* C4 witness: B (2 pages), a missing path, A (3 pages) merged into 5 pages
C4_Witness ==
    /\ MergeReturned
    /\ input_files = <<SrcB, SrcNone, SrcA>>
    /\ fs[output_pdf].pages =
           <<<<"b", 1>>, <<"b", 2>>, <<"a", 1>>, <<"a", 2>>, <<"a", 3>>>>
    /\ FileWarning(SrcNone) \in Lines(stdout)

----------------------------------------------------------------------------
(* C7 *)

EbookCmd(in, out) ==
    <<"gs", "-sDEVICE=pdfwrite", "-dCompatibilityLevel=1.5", "-dPDFSETTINGS=/ebook",
      "-dNOPAUSE", "-dQUIET", "-dBATCH", "-dAutoRotatePages=/None",
      "-sOutputFile=" \o PathStr(out), PathStr(in)>>

\* C7: a call of compress_pdf with a level outside 1..5 prints the warning
\* and then does what the call with level 3 does on the same files with the
\* same Ghostscript: the same command (preset /ebook, no level-5 flag), the
\* same lines printed after the warning, the same files left.
C7_InvalidLevelIsLevel3 ==
    [][(pc = "form" /\ pc' = "done" /\ power' \notin 1..5)
       => LET r3 == compress_pdf(fs, dirs, input_pdf', output_pdf', 3, gs_exit')
          IN  /\ stdout' = <<InvalidLevel>> \o r3.out
              /\ fs' = r3.fs
              /\ gs_cmd' = r3.cmd
              /\ gs_cmd' \in {<<>>, EbookCmd(input_pdf', output_pdf')}
              /\ Lines(gs_cmd') \cap Lines(CustomFlags) = {}]_vars

\* C7 witness: level 0 was given, the /ebook command was run and the
\* compressed file was reported
C7_Witness ==
    /\ pc = "done"
    /\ power = 0
    /\ gs_cmd = EbookCmd(input_pdf, output_pdf)
    /\ stdout = <<InvalidLevel, "Compressing PDF (this may take a while for large files)...",
                  "Success: File compressed">>
    /\ written = <<output_pdf>>

----------------------------------------------------------------------------
(* C8 *)

Parsed == pc \in {"extract_open", "delete_open"}
RangesReturned ==
    pc \in {"extract_return", "delete_return"} /\ Readable(fs, input_pdf)

\* C8 as stated: extract_pages and delete_pages are entered only with lists
\* in which every token has the form "<start>-<end>", the parser having
\* failed on every other text.
C8_ParserRejectsMalformed ==
    Parsed => \A k \in 1..Len(page_ranges) : IsRangeToken(page_ranges[k])

\* C8 as amended: parse_page_ranges returns, for every text, its
\* comma-separated pieces, each stripped, whatever their form; it is the
\* operation that fails on a token that does not split at "-" into two
\* parts int accepts: extract_pages and delete_pages then end with a
\* ValueError reported and nothing written, and with no ValueError when
\* every token has that form.
C8_FormatErrorInOperation ==
    /\ Parsed
       => /\ Len(page_ranges) = Count(ranges_field, ",") + 1
          /\ \A k \in 1..Len(page_ranges) :
                /\ Count(page_ranges[k], ",") = 0
                /\ page_ranges[k] # <<>>
                   => Head(page_ranges[k]) # " " /\ Last(page_ranges[k]) # " "
          /\ Unblank(Flatten(page_ranges)) = SelectSeq(Unblank(ranges_field),
                                                       LAMBDA c : c # ",")
    /\ RangesReturned
       => /\ (\E k \in 1..Len(page_ranges) : ~IsRangeToken(page_ranges[k]))
             <=> "Error: ValueError" \in Lines(stdout)
          /\ "Error: ValueError" \in Lines(stdout)
             => (written = <<>> /\ stdout = <<"Error: ValueError">>)

\* C8 witness: "1-2,3" went through the parser and extract_pages failed on "3"
C8_Witness ==
    /\ pc = "extract_return"
    /\ Readable(fs, input_pdf)
    /\ page_ranges = <<Chars12, <<"3">>>>
    /\ stdout = <<"Error: ValueError">>
    /\ written = <<>>

----------------------------------------------------------------------------
(* C9 *)

\* C9: once a handler has shown its SnackBar, a success text means that the
\* operation completed and wrote its output, and a failed operation has an
\* error text.
C9_SnackReportsOutcome ==
    pc = "done"
    => /\ snack \in SuccessSnacks => (~Failed /\ written # <<>>)
       /\ Failed => snack \notin SuccessSnacks

----------------------------------------------------------------------------
(* C10 *)

WritePcs == {"extract_write", "merge_write", "delete_write"}
ExceptPcs == {"extract_except", "merge_except", "delete_except"}
ReturnPcs == {"extract_return", "merge_return", "delete_return"}
CopyPcs == {"extract_open", "extract_count", "extract_range", "merge_count",
            "merge_file", "delete_open", "delete_range", "delete_copy"}

\* every element of the list the call traverses has been taken
TraversalDone ==
    IF pc = "merge_write" THEN idx = Len(input_files) + 1
    ELSE idx = Len(page_ranges) + 1

\* C10: in extract_pages, merge_pdfs and delete_pages the files change in
\* one step only, the write at the end: it comes after the whole traversal,
\* happens once, puts the pages of the writer in the destination and touches
\* no other file, and the call then returns; a step that raises, and
\* everything after it, leaves every file as it was, nothing written.
C10_WriteOnceAtEnd ==
    [][/\ (pc \in CopyPcs \cup WritePcs \cup ExceptPcs \cup ReturnPcs
           /\ (fs' # fs \/ written' # written))
          => /\ pc \in WritePcs /\ pc' \in ReturnPcs
             /\ TraversalDone
             /\ written = <<>> /\ written' = <<output_pdf>>
             /\ fs'[output_pdf] = Pdf(writer)
             /\ \A p \in DOMAIN fs' : p # output_pdf => (exists(fs, p) /\ fs'[p] = fs[p])
       /\ pc' \in ExceptPcs => (fs' = fs /\ written' = <<>>)
       /\ pc \in ExceptPcs => pc' \in ReturnPcs]_vars

\* C10 witness: delete_pages took "0-1", failed on the next token, and the
\* older document at the destination is still there
C10_Witness ==
    /\ pc = "delete_except"
    /\ exc = "ValueError"
    /\ pages_to_exclude # {}
    /\ exists(fs, output_pdf)
    /\ fs[output_pdf] = Pdf(Doc("old", 1))
    /\ written = <<>>

====
